---- MODULE Spec2Model ----
(***************************************************************************)
(* Model of the invoice PDF generator of the AIly frontend                 *)
(* (createPDFDocument, generatePDF, generatePDFBase64).                    *)
(*                                                                         *)
(* Numbers.  A JavaScript number is a record [nan, v]; v counts            *)
(* thousandths, so that quantity * rate and subtotal * 0.10 are exact for  *)
(* inputs with at most one fractional digit.  Binary floating-point        *)
(* rounding is not modelled; NaN and its propagation are.                  *)
(*                                                                         *)
(* Values.  A JavaScript value that the code parses or tests (quantity,    *)
(* rate, total, description, status) is a record [t, n, s] with            *)
(* t in {"undef", "num", "str"}; strings are tuples of one-character       *)
(* strings.  A text field that is only tested for presence and printed     *)
(* (names, addresses, dates) is a TLA+ string, "" standing for an absent   *)
(* or empty (falsy) field.  An optional object is a tuple of length 0      *)
(* (absent) or 1.                                                          *)
(*                                                                         *)
(* Document.  The jsPDF document is the sequence of the text, line and     *)
(* table calls made on it, with contents and coordinates.  Calls that      *)
(* only change font, size or colour are not recorded.                      *)
(*                                                                         *)
(* The AIly sidebar (AIlySidebar) is modelled in the last part of the      *)
(* module, with its own variables and its own specification SpecChat.      *)
(***************************************************************************)
EXTENDS Integers, Sequences, FiniteSets, TLC

VARIABLES invoiceData, user, client, tableEnd, doc, built, fileOut, b64Out

pdfVars == <<invoiceData, user, client, tableEnd, doc, built, fileOut, b64Out>>

\* AIlySidebar: the component's state and refs, and its asynchronous work
\* in progress
VARIABLES isOpen, messages, input, isLoading, isRecording, isTranscribing,
          mediaRecorder, audioChunks,
          startPending, stopQueued, voiceTranscribing, voiceChatting, formChats

chatVars == <<isOpen, messages, input, isLoading, isRecording, isTranscribing,
              mediaRecorder, audioChunks,
              startPending, stopQueued, voiceTranscribing, voiceChatting, formChats>>

vars == <<pdfVars, chatVars>>

-----------------------------------------------------------------------------
(* Bounds of the checked input space.                                      *)

MaxItems == 3

MaxDescLines == 2

-----------------------------------------------------------------------------
(* `const x = e` followed by F(x): e is evaluated once and F applied to    *)
(* its value.                                                              *)
Let(e, F(_)) == CHOOSE r \in {F(x) : x \in {e}} : TRUE

-----------------------------------------------------------------------------
(* JavaScript numbers.                                                     *)

Unit == 1000

NaN == [nan |-> TRUE, v |-> 0]

Num(n) == [nan |-> FALSE, v |-> n]

Zero == Num(0)

Add(a, b) == IF a.nan \/ b.nan THEN NaN ELSE Num(a.v + b.v)

Sub(a, b) == IF a.nan \/ b.nan THEN NaN ELSE Num(a.v - b.v)

Mul(a, b) == IF a.nan \/ b.nan THEN NaN ELSE Num((a.v * b.v) \div Unit)

\* x * 0.10
TimesTenth(a) == IF a.nan THEN NaN ELSE Num(a.v \div 10)

\* a > 0 : false for NaN
GtZero(a) == ~a.nan /\ a.v > 0

\* a !== b on numbers : NaN differs from everything, itself included
StrictNe(a, b) == a.nan \/ b.nan \/ a.v # b.v

-----------------------------------------------------------------------------
(* JavaScript values and strings.                                          *)

Undef == [t |-> "undef", n |-> 0, s |-> <<>>]

NumV(n) == [t |-> "num", n |-> n, s |-> <<>>]

StrV(s) == [t |-> "str", n |-> 0, s |-> s]

\* truthiness used by `x || y` and `if (x)`
Truthy(x) == \/ x.t = "num" /\ x.n # 0
             \/ x.t = "str" /\ x.s # <<>>

\* x || 0
OrZero(x) == IF Truthy(x) THEN x ELSE NumV(0)

\* x || ''
OrEmpty(x) == IF Truthy(x) THEN x ELSE StrV(<<>>)

UpperAlpha == <<"A","B","C","D","E","F","G","H","I","J","K","L","M",
                "N","O","P","Q","R","S","T","U","V","W","X","Y","Z">>

LowerAlpha == <<"a","b","c","d","e","f","g","h","i","j","k","l","m",
                "n","o","p","q","r","s","t","u","v","w","x","y","z">>

LowerOf == [c \in {UpperAlpha[i] : i \in 1..26} |->
              LowerAlpha[CHOOSE i \in 1..26 : UpperAlpha[i] = c]]

UpperOf == [c \in {LowerAlpha[i] : i \in 1..26} |->
              UpperAlpha[CHOOSE i \in 1..26 : LowerAlpha[i] = c]]

LowerChar(c) == IF c \in DOMAIN LowerOf THEN LowerOf[c] ELSE c

UpperChar(c) == IF c \in DOMAIN UpperOf THEN UpperOf[c] ELSE c

ToLowerCase(s) == [i \in 1..Len(s) |-> LowerChar(s[i])]

ToUpperCase(s) == [i \in 1..Len(s) |-> UpperChar(s[i])]

\* String.prototype.includes
Includes(s, sub) ==
  \E i \in 1..(Len(s) - Len(sub) + 1) : SubSeq(s, i, i + Len(sub) - 1) = sub

Digits == <<"0","1","2","3","4","5","6","7","8","9">>

DigitOf == [c \in {Digits[i] : i \in 1..10} |-> (CHOOSE i \in 1..10 : Digits[i] = c) - 1]

IsDigit(c) == c \in DOMAIN DigitOf

DigitVal(c) == DigitOf[c]

\* number of leading characters of s that satisfy the digit test
RECURSIVE DigitRun(_)
DigitRun(s) ==
  IF s # <<>> /\ IsDigit(Head(s)) THEN 1 + DigitRun(Tail(s)) ELSE 0

RECURSIVE DigitsValue(_)
DigitsValue(s) ==
  IF s = <<>> THEN 0 ELSE 10 * DigitsValue(SubSeq(s, 1, Len(s) - 1)) + DigitVal(s[Len(s)])

RECURSIVE TrimStart(_)
TrimStart(s) ==
  IF s # <<>> /\ Head(s) = " " THEN TrimStart(Tail(s)) ELSE s

\* parseFloat on a string: leading blanks, an optional sign, digits, an
\* optional fraction; the longest numeric prefix is used and the rest
\* ignored; NaN when there is no digit.  The fraction is read to one digit.
ParseUnsigned(s1, neg) ==
  Let(DigitRun(s1), LAMBDA ni :
    Let(SubSeq(s1, ni + 1, Len(s1)), LAMBDA r :
      LET dot   == r # <<>> /\ Head(r) = "."
          nf    == IF dot THEN DigitRun(Tail(r)) ELSE 0
          tenth == IF nf > 0 THEN DigitVal(r[2]) ELSE 0
          mag   == DigitsValue(SubSeq(s1, 1, ni)) * Unit + tenth * (Unit \div 10)
      IN  IF ni = 0 /\ nf = 0 THEN NaN
          ELSE Num(IF neg THEN 0 - mag ELSE mag)))

ParseFloatStr(str) ==
  Let(TrimStart(str), LAMBDA s0 :
    LET neg == s0 # <<>> /\ Head(s0) = "-"
        sgn == s0 # <<>> /\ Head(s0) \in {"-", "+"}
    IN  ParseUnsigned(IF sgn THEN Tail(s0) ELSE s0, neg))

\* parseFloat(x): the argument is converted to a string first
ParseFloat(x) ==
  CASE x.t = "num" -> Num(x.n)
    [] x.t = "str" -> ParseFloatStr(x.s)
    [] OTHER       -> NaN

-----------------------------------------------------------------------------
(* Printed strings.                                                        *)

\* a literal or a template literal `${pre}${str}`
Plain(pre, str) ==
  [pre |-> pre, str |-> str, chars |-> <<>>, fmt |-> "", nan |-> FALSE, val |-> 0]

\* a template literal whose argument is a parsed or converted string
Chars(pre, cs) ==
  [pre |-> pre, str |-> "", chars |-> cs, fmt |-> "", nan |-> FALSE, val |-> 0]

\* Number.prototype.toString: the value itself, "NaN" for NaN
NumToString(a) ==
  [pre |-> "", str |-> "", chars |-> <<>>, fmt |-> "toString", nan |-> a.nan, val |-> a.v]

\* Number.prototype.toFixed(2): the nearest number of hundredths, the larger
\* one on a tie; "NaN" for NaN
ToFixed2(a) == IF a.nan THEN NaN ELSE Num((a.v + 5) \div 10)

\* `$${a.toFixed(2)}`
Money(a) ==
  Let(ToFixed2(a), LAMBDA f :
    [pre |-> "$", str |-> "", chars |-> <<>>, fmt |-> "toFixed2",
     nan |-> f.nan, val |-> f.v])

-----------------------------------------------------------------------------
(* Calls on the jsPDF document.                                            *)

\* doc.text(s, x, y, {align})
TextOp(s, x, y, align) ==
  [op |-> "text", s |-> s, x |-> x, y |-> y, x2 |-> 0, y2 |-> 0,
   align |-> align, body |-> <<>>]

\* doc.line(x, y, x2, y2)
LineOp(x, y, x2, y2) ==
  [op |-> "line", s |-> Plain("", ""), x |-> x, y |-> y, x2 |-> x2, y2 |-> y2,
   align |-> "", body |-> <<>>]

\* autoTable(doc, {startY, head, body}); the fourth head cell is always
\* 'Amount', the third is 'Rate' or 'Price' and is kept in s
TableOp(third, startY, rows) ==
  [op |-> "table", s |-> Plain(third, ""), x |-> 0, y |-> startY, x2 |-> 0, y2 |-> 0,
   align |-> "", body |-> rows]

\* height of the default (a4, mm) page, doc.internal.pageSize.height
PageHeight == 297

Max(a, b) == IF a > b THEN a ELSE b

\* `if (cond) { doc.text(s, 20, yPos); yPos += 5 }`
PrintIf(st0, cond, s) ==
  Let(st0, LAMBDA st :
    IF cond
    THEN [ops |-> Append(st.ops, TextOp(s, 20, st.yPos, "left")), yPos |-> st.yPos + 5]
    ELSE st)

-----------------------------------------------------------------------------
(* createPDFDocument, block by block.  A block takes and returns the       *)
(* document's calls so far and the cursor yPos.                            *)

\* const doc = new jsPDF(): a fresh document, whatever was built before
NewDocStale(prev) == prev

NewDoc(prev) == <<>>

\* invoiceData.invoice || invoiceData
InvoiceOf(data) == IF data.invoice # <<>> THEN data.invoice[1] ELSE data

NoInfo == [businessName |-> "", businessAddress |-> "", businessPhone |-> "",
           businessEmail |-> "", name |-> "", email |-> "", address |-> ""]

\* invoiceData.user || user || {}
BusinessInfoOf(data, usr) ==
  IF data.user # <<>> THEN data.user[1] ELSE IF usr # <<>> THEN usr[1] ELSE NoInfo

\* invoiceData.client || client || {}
ClientInfoOf(data, cli) ==
  IF data.client # <<>> THEN data.client[1] ELSE IF cli # <<>> THEN cli[1] ELSE NoInfo

\* yPos += 5 after each printed header field
HeaderAdvance == 5

\* header: business name and the optional address, phone, email lines
HeaderBlock(ops0, b) ==
  LET PrintHdr(st0, f) ==
        Let(st0, LAMBDA st :
          IF f # ""
          THEN [ops |-> Append(st.ops, TextOp(Plain("", f), 20, st.yPos, "left")),
                yPos |-> st.yPos + HeaderAdvance]
          ELSE st)
      s0 == [ops  |-> Append(ops0, TextOp(Plain("", IF b.businessName # ""
                                                    THEN b.businessName ELSE "Invoice"),
                                          20, 25, "left")),
             yPos |-> 32]
      s1 == PrintHdr(s0, b.businessAddress)
      s2 == PrintHdr(s1, b.businessPhone)
  IN  PrintHdr(s2, b.businessEmail)

\* right column: INVOICE, number, dates, status; fixed positions
MetaBlock(st0, inv) ==
  Let(st0, LAMBDA st :
  LET o1 == Append(st.ops, TextOp(Plain("INVOICE", ""), 150, 25, "left"))
      o2 == Append(o1, TextOp(Plain("Invoice #: ", IF inv.invoiceNumber # ""
                                                   THEN inv.invoiceNumber ELSE "N/A"),
                              150, 32, "left"))
      o3 == IF inv.issueDate # ""
            THEN Append(o2, TextOp(Plain("Issue Date: ", inv.issueDate), 150, 37, "left"))
            ELSE o2
      o4 == IF inv.dueDate # ""
            THEN Append(o3, TextOp(Plain("Due Date: ", inv.dueDate), 150, 42, "left"))
            ELSE o3
      status == ToUpperCase(IF Truthy(inv.status) THEN inv.status.s
                            ELSE <<"d","r","a","f","t">>)
  IN  [ops |-> Append(o4, TextOp(Chars("Status: ", status), 150, 47, "left")),
       yPos |-> st.yPos])

\* yPos = Math.max(yPos + 10, 55)
BillToYNoFloor(y) == y + 10

BillToY(y) == Max(y + 10, 55)

\* BILL TO: label and the optional client lines
BillToBlock(st0, c) ==
  Let(st0, LAMBDA st :
  LET y0 == BillToY(st.yPos)
      s0 == [ops  |-> Append(st.ops, TextOp(Plain("BILL TO:", ""), 20, y0, "left")),
             yPos |-> y0 + 6]
      s1 == PrintIf(s0, c.name # "", Plain("", c.name))
      s2 == PrintIf(s1, c.email # "", Plain("", c.email))
  IN  PrintIf(s2, c.address # "", Plain("", c.address)))

RECURSIVE PrintLines(_, _)
\* descriptionLines.forEach(line => { doc.text(line, 20, yPos); yPos += 5 })
PrintLines(st, lines) ==
  IF lines = <<>> THEN st
  ELSE Let(PrintIf(st, TRUE, Plain("", Head(lines))),
           LAMBDA st1 : PrintLines(st1, Tail(lines)))

\* Job/Project title and the wrapped description; invoiceDescription is held
\* as the lines doc.splitTextToSize(invoiceDescription, 150) breaks it into
JobBlock(st0, inv) ==
  Let(st0, LAMBDA st :
  IF inv.invoiceTitle # "" \/ inv.invoiceDescription # <<>>
  THEN LET s0 == [ops |-> st.ops, yPos |-> st.yPos + 5]
           s1 == IF inv.invoiceTitle # ""
                 THEN PrintIf(PrintIf(s0, TRUE, Plain("Job/Project:", "")),
                              TRUE, Plain("", inv.invoiceTitle))
                 ELSE s0
       IN  PrintLines(s1, inv.invoiceDescription)
  ELSE st)

-----------------------------------------------------------------------------
(* Line items: classification, rows, sections.                             *)

Keywords == << <<"l","a","b","o","r">>, <<"h","o","u","r">>,
               <<"s","e","r","v","i","c","e">>, <<"t","i","m","e">> >>

\* the same test without toLowerCase()
IsServiceCaseSensitive(item) ==
  \E k \in 1..Len(Keywords) : Includes(OrEmpty(item.description).s, Keywords[k])

\* desc.includes('labor') || desc.includes('hour') || desc.includes('service')
\* || desc.includes('time'), desc = (item.description || '').toLowerCase()
IsService(item) ==
  LET desc == ToLowerCase(OrEmpty(item.description).s)
  IN  \E k \in 1..Len(Keywords) : Includes(desc, Keywords[k])

RECURSIVE Classify(_, _)
\* lineItems.forEach(item => services.push(item) or materials.push(item)),
\* started with acc = [services |-> <<>>, materials |-> <<>>]
Classify(items, acc) ==
  IF items = <<>> THEN acc
  ELSE LET item == Head(items)
       IN  Classify(Tail(items),
                    IF IsService(item)
                    THEN [acc EXCEPT !.services = Append(@, item)]
                    ELSE [acc EXCEPT !.materials = Append(@, item)])

\* the two buckets of an invoice; lineItems absent or empty gives two empty ones
Buckets(inv) ==
  IF inv.lineItems # <<>> /\ Len(inv.lineItems[1]) > 0
  THEN Classify(inv.lineItems[1], [services |-> <<>>, materials |-> <<>>])
  ELSE [services |-> <<>>, materials |-> <<>>]

\* parseFloat(item.quantity || 0)
Quantity(item) == ParseFloat(OrZero(item.quantity))

\* parseFloat(item.rate || 0)
Rate(item) == ParseFloat(OrZero(item.rate))

\* an item total taken from the item's own amount field
ItemTotalFromAmount(item) ==
  IF Truthy(item.amount) THEN ParseFloat(item.amount) ELSE Mul(Quantity(item), Rate(item))

\* const itemTotal = quantity * rate
ItemTotal(item) ==
  Let(Quantity(item), LAMBDA quantity : Let(Rate(item), LAMBDA rate : Mul(quantity, rate)))

\* the table row of one item
ItemRow(item) ==
  Let(Quantity(item), LAMBDA quantity :
    << Chars("", OrEmpty(item.description).s), NumToString(quantity),
       Money(Rate(item)), Money(ItemTotal(item)) >>)

\* items.map(item => { ...; subtotal += itemTotal; return row })
Rows(items) == [i \in 1..Len(items) |-> ItemRow(items[i])]

RECURSIVE SumTotals(_, _)
\* the running `subtotal += itemTotal` over a bucket, started at acc
SumTotals(items, acc) ==
  IF items = <<>> THEN acc
  ELSE Let(Add(acc, ItemTotal(Head(items))), LAMBDA a : SumTotals(Tail(items), a))

\* a cursor estimated from the number of rows instead of the reported end
AfterTableEstimate(startY, rows, finalY) == startY + 10 * (Len(rows) + 1) + 10

\* yPos = doc.lastAutoTable.finalY + 10
AfterTable(startY, rows, finalY) == finalY + 10

\* a section rendered for every bucket, `if (items)`
HasItemsAlways(items) == TRUE

\* if (services.length > 0), if (materials.length > 0)
HasItems(items) == Len(items) > 0

\* one section: heading, table, subtotal line.  finalY is the end position
\* autoTable reports for this table (doc.lastAutoTable.finalY).
Section(st0, items, heading, third, label, finalY) ==
  Let(st0, LAMBDA st :
  IF HasItems(items)
  THEN Let(Rows(items), LAMBDA rows :
       Let(SumTotals(items, Zero), LAMBDA sub :
       LET o1    == Append(st.ops, TextOp(Plain(heading, ""), 20, st.yPos, "left"))
           start == st.yPos + 2
           o2    == Append(o1, TableOp(third, start, rows))
           y     == AfterTable(start, rows, finalY)
           o3    == Append(o2, TextOp(Plain(label, ""), 135, y, "left"))
           o4    == Append(o3, TextOp(Money(sub), 175, y, "right"))
       IN  [ops |-> o4, yPos |-> y + 12, sub |-> sub]))
  ELSE [ops |-> st.ops, yPos |-> st.yPos, sub |-> Zero])

-----------------------------------------------------------------------------
(* Totals and footer.                                                      *)

\* parseFloat(invoice.total || 0)
InvoiceTotal(inv) == ParseFloat(OrZero(inv.total))

\* the tax without the test that the total differs from the subtotal
TaxAmountNoDiffTest(invoiceTotal, subtotal) ==
  IF GtZero(invoiceTotal) THEN Sub(invoiceTotal, subtotal) ELSE TimesTenth(subtotal)

\* invoiceTotal > 0 && invoiceTotal !== subtotal
\*   ? invoiceTotal - subtotal : subtotal * 0.10
TaxAmount(invoiceTotal, subtotal) ==
  IF GtZero(invoiceTotal) /\ StrictNe(invoiceTotal, subtotal)
  THEN Sub(invoiceTotal, subtotal)
  ELSE TimesTenth(subtotal)

\* a total that is always recomputed
TotalRecomputed(invoiceTotal, subtotal, taxAmount) == Add(subtotal, taxAmount)

\* invoiceTotal > 0 ? invoiceTotal : subtotal + taxAmount
Total(invoiceTotal, subtotal, taxAmount) ==
  IF GtZero(invoiceTotal) THEN invoiceTotal ELSE Add(subtotal, taxAmount)

\* a Tax line for every nonzero tax
ShowTaxNonZero(taxAmount) == taxAmount.nan \/ taxAmount.v # 0

\* if (taxAmount > 0)
ShowTax(taxAmount) == GtZero(taxAmount)

\* divider, Subtotal, optional Tax, rule, TOTAL
TotalsBlock(st0, subtotal, taxAmount, total) ==
  Let(st0, LAMBDA st :
  LET y1 == st.yPos + 15
      o1 == Append(st.ops, LineOp(120, y1, 190, y1))
      y2 == y1 + 10
      o2 == Append(o1, TextOp(Plain("Subtotal:", ""), 135, y2, "left"))
      o3 == Append(o2, TextOp(Money(subtotal), 175, y2, "right"))
      y3 == IF ShowTax(taxAmount) THEN y2 + 8 ELSE y2
      o4 == IF ShowTax(taxAmount)
            THEN Append(Append(o3, TextOp(Plain("Tax:", ""), 135, y3, "left")),
                        TextOp(Money(taxAmount), 175, y3, "right"))
            ELSE o3
      y4 == y3 + 10
      o5 == Append(o4, LineOp(120, y4 - 2, 190, y4 - 2))
      o6 == Append(o5, TextOp(Plain("TOTAL:", ""), 135, y4 + 3, "left"))
      o7 == Append(o6, TextOp(Money(total), 175, y4 + 3, "right"))
  IN  [ops |-> o7, yPos |-> y4])

\* thank-you line and the optional "Generated by" line
FooterBlock(st0, b) ==
  Let(st0, LAMBDA st :
  LET o1 == Append(st.ops, TextOp(Plain("Thank you for your business!", ""),
                                  105, PageHeight - 20, "center"))
      o2 == IF b.businessName # ""
            THEN Append(o1, TextOp(Plain("Generated by ", b.businessName),
                                   105, PageHeight - 15, "center"))
            ELSE o1
  IN  [ops |-> o2, yPos |-> st.yPos])

\* subtotal, invoiceTotal, taxAmount, total
Totals(inv, servicesSubtotal, materialsSubtotal) ==
  Let(Add(servicesSubtotal, materialsSubtotal), LAMBDA subtotal :
  Let(InvoiceTotal(inv), LAMBDA invoiceTotal :
  Let(TaxAmount(invoiceTotal, subtotal), LAMBDA taxAmount :
    [subtotal |-> subtotal, invoiceTotal |-> invoiceTotal, taxAmount |-> taxAmount,
     total |-> Total(invoiceTotal, subtotal, taxAmount)])))

\* createPDFDocument(invoiceData, user, client) on the document doc0, with
\* end the end positions autoTable reports.  Returns the document's calls
\* and the values of the function's locals.
CreatePDFDocument(doc0, data, usr, cli, end) ==
  LET inv == InvoiceOf(data)
      b   == BusinessInfoOf(data, usr)
      c   == ClientInfoOf(data, cli)
  IN  Let(HeaderBlock(doc0, b), LAMBDA h :
      Let(JobBlock(BillToBlock(MetaBlock(h, inv), c), inv), LAMBDA j :
      Let(Buckets(inv), LAMBDA bk :
      Let(Section([ops |-> j.ops, yPos |-> j.yPos + 10], bk.services,
                  "SERVICES", "Rate", "Services Subtotal:", end.s), LAMBDA sv :
      Let(Section(sv, bk.materials,
                  "MATERIALS", "Price", "Materials Subtotal:", end.m), LAMBDA mt :
      Let(Totals(inv, sv.sub, mt.sub), LAMBDA t :
      Let(FooterBlock(TotalsBlock(mt, t.subtotal, t.taxAmount, t.total), b), LAMBDA f :
        [ops    |-> f.ops,
         locals |-> [yPos |-> f.yPos, headerY |-> h.yPos, tablesY |-> j.yPos + 10,
                     services |-> bk.services, materials |-> bk.materials,
                     servicesSubtotal |-> sv.sub, materialsSubtotal |-> mt.sub,
                     subtotal |-> t.subtotal, invoiceTotal |-> t.invoiceTotal,
                     taxAmount |-> t.taxAmount, total |-> t.total]])))))))

-----------------------------------------------------------------------------
(* The two exported entry points.                                          *)

\* `Invoice-${invoiceNumber}.pdf` with invoiceNumber = invoice.invoiceNumber || 'Draft'
FileName(data) ==
  LET inv == InvoiceOf(data)
  IN  <<"Invoice-", IF inv.invoiceNumber # "" THEN inv.invoiceNumber ELSE "Draft", ".pdf">>

\* doc.output('datauristring'): the media-type prefix, a comma, the base64
\* text of the document; held as the parts split(',') yields (0-based in
\* the code, 1-based here)
DataUriString(ops) ==
  << [part |-> "data:application/pdf;filename=generated.pdf;base64", of |-> <<>>],
     [part |-> "base64", of |-> ops] >>

\* generatePDF(invoiceData, user, client)
GeneratePDF ==
  \E r \in {CreatePDFDocument(NewDoc(doc), invoiceData, user, client, tableEnd)} :
      /\ doc' = r.ops
      /\ built' = <<r.locals>>
      /\ fileOut' = <<[name |-> FileName(invoiceData), doc |-> r.ops]>>
      /\ UNCHANGED <<invoiceData, user, client, tableEnd, b64Out>>
      /\ UNCHANGED chatVars

\* generatePDFBase64(invoiceData, user, client)
GeneratePDFBase64 ==
  \E r \in {CreatePDFDocument(NewDoc(doc), invoiceData, user, client, tableEnd)} :
      /\ doc' = r.ops
      /\ built' = <<r.locals>>
      /\ b64Out' = <<DataUriString(r.ops)[2]>>
      /\ UNCHANGED <<invoiceData, user, client, tableEnd, fileOut>>
      /\ UNCHANGED chatVars

-----------------------------------------------------------------------------
(* Inputs.                                                                 *)

Item(d, q, r, a) == [description |-> d, quantity |-> q, rate |-> r, amount |-> a]

\* "Labor", 2 x 50
ItemLabor == Item(StrV(<<"L","a","b","o","r">>), NumV(2 * Unit), NumV(50 * Unit), Undef)

\* "paint", "3" x "1.5", carries amount 999
ItemPaint == Item(StrV(<<"p","a","i","n","t">>), StrV(<<"3">>), StrV(<<"1",".","5">>),
                  NumV(999 * Unit))

\* no description, no quantity, rate 20
ItemBare == Item(Undef, Undef, NumV(20 * Unit), Undef)

\* "OVERTIME", malformed quantity "abc", rate 10
ItemMalformed == Item(StrV(<<"O","V","E","R","T","I","M","E">>), StrV(<<"a","b","c">>),
                      NumV(10 * Unit), Undef)

\* "Timber" (no keyword), -1 x "5x" (numeric prefix), carries amount 7
ItemTimber == Item(StrV(<<"T","i","m","b","e","r">>), NumV(0 - Unit), StrV(<<"5","x">>),
                   NumV(7 * Unit))

ItemKinds == {ItemLabor, ItemPaint, ItemBare, ItemMalformed, ItemTimber}

SeqsUpTo(S, n) == UNION {[1..k -> S] : k \in 0..n}

\* lineItems: absent, or a sequence of at most MaxItems items
LineItemsChoices == {<<>>} \cup {<<q>> : q \in SeqsUpTo(ItemKinds, MaxItems)}

\* record.total: absent, 0, 95, 100, -50, "abc", "110.0"
TotalChoices == {Undef, NumV(0), NumV(95 * Unit), NumV(100 * Unit), NumV(0 - 50 * Unit),
                 StrV(<<"a","b","c">>), StrV(<<"1","1","0",".","0">>)}

\* end positions reported by autoTable for the two tables; an end position
\* above the start is a table continued on a new page
TableEndSamePage == [s |-> 120, m |-> 180]

TableEndNewPage == [s |-> 250, m |-> 40]

\* <<record.total, table ends>>
TotalAndEndChoices ==
  {<<t, TableEndSamePage>> : t \in TotalChoices} \cup {<<Undef, TableEndNewPage>>}

Business(n, a, p, e) ==
  [businessName |-> n, businessAddress |-> a, businessPhone |-> p, businessEmail |-> e]

BusinessChoices ==
  {Business(n, a, p, e) : n \in {"", "Acme"}, a \in {"", "1 Main St"},
                          p \in {"", "555-0100"}, e \in {"", "office@acme.test"}}

OtherBusiness == Business("Other", "9 Side Rd", "", "")

\* <<invoiceData.user, user>>
UserChoices ==
  {<< <<>>, <<>> >>,
   << <<>>, <<OtherBusiness>> >>,
   << <<Business("", "", "555-0100", "")>>, <<OtherBusiness>> >>}
    \cup {<< <<b>>, <<>> >> : b \in BusinessChoices}

Client(n, e, a) == [name |-> n, email |-> e, address |-> a]

OtherClient == Client("Other", "", "")

\* <<invoiceData.client, client>>
ClientChoices ==
  {<< <<>>, <<>> >>,
   << <<>>, <<Client("Bo", "", "2 Elm St")>> >>,
   << <<Client("Bo", "bo@x.test", "")>>, <<OtherClient>> >>}

\* invoiceDescription as wrapped lines: absent, or 1..MaxDescLines lines
DescriptionChoices == {[i \in 1..k |-> "line"] : k \in 0..MaxDescLines}

Invoice(num, issue, due, status, title, descr, total, items) ==
  [invoiceNumber |-> num, issueDate |-> issue, dueDate |-> due, status |-> status,
   invoiceTitle |-> title, invoiceDescription |-> descr, total |-> total,
   lineItems |-> items]

\* <<invoiceNumber, issueDate, dueDate, status>>
MetaChoices ==
  {<<"", "", "2024-02-05", Undef>>,
   <<"INV-7", "2024-01-05", "", StrV(<<"S","e","n","t">>)>>}

\* invoiceData = { invoice, user, client }
Wrapped(inv, u, c) ==
  [invoice |-> <<inv>>, user |-> u, client |-> c,
   invoiceNumber |-> "", issueDate |-> "", dueDate |-> "", status |-> Undef,
   invoiceTitle |-> "", invoiceDescription |-> <<>>, total |-> Undef, lineItems |-> <<>>]

\* invoiceData is the invoice itself
Flat(inv, u, c) ==
  [invoice |-> <<>>, user |-> u, client |-> c,
   invoiceNumber |-> inv.invoiceNumber, issueDate |-> inv.issueDate,
   dueDate |-> inv.dueDate, status |-> inv.status, invoiceTitle |-> inv.invoiceTitle,
   invoiceDescription |-> inv.invoiceDescription, total |-> inv.total,
   lineItems |-> inv.lineItems]

NoCalls ==
  /\ doc = <<>>
  /\ built = <<>>
  /\ fileOut = <<>>
  /\ b64Out = <<>>

\* inputs that vary the header, bill-to, job and metadata blocks
InitLayout ==
  \E u \in UserChoices, c \in ClientChoices, mc \in MetaChoices,
     title \in {"", "Roof repair"}, descr \in DescriptionChoices,
     items \in {<< <<ItemLabor, ItemPaint>> >>}, w \in BOOLEAN :
    LET inv == Invoice(mc[1], mc[2], mc[3], mc[4], title, descr, Undef, items)
    IN  /\ invoiceData = IF w THEN Wrapped(inv, u[1], c[1]) ELSE Flat(inv, u[1], c[1])
        /\ user = u[2]
        /\ client = c[2]
        /\ tableEnd = TableEndSamePage
        /\ NoCalls

\* inputs that vary the line items, the record total and the table ends
InitItems ==
  \E items \in LineItemsChoices, te \in TotalAndEndChoices :
    LET inv == Invoice("INV-7", "", "", Undef, "", <<>>, te[1], items)
    IN  /\ invoiceData = Flat(inv, <<>>, <<>>)
        /\ user = <<>>
        /\ client = <<>>
        /\ tableEnd = te[2]
        /\ NoCalls

\* AIlySidebar as first rendered: closed, the welcome message, nothing in
\* progress
ChatIdle ==
  /\ isOpen = FALSE
  /\ messages = <<[role |-> "assistant", content |-> "AIly Online."]>>
  /\ input = ""
  /\ isLoading = FALSE
  /\ isRecording = FALSE
  /\ isTranscribing = FALSE
  /\ mediaRecorder = "null"
  /\ audioChunks = 0
  /\ startPending = 0
  /\ stopQueued = 0
  /\ voiceTranscribing = 0
  /\ voiceChatting = 0
  /\ formChats = 0

Init == (InitLayout \/ InitItems) /\ ChatIdle

Next == GeneratePDF \/ GeneratePDFBase64

Spec == Init /\ [][Next]_vars

-----------------------------------------------------------------------------
(* Vocabulary of the properties.                                           *)

\* the invoice and the line items the last call was given
TheInvoice == InvoiceOf(invoiceData)

TheItems == IF TheInvoice.lineItems # <<>> THEN TheInvoice.lineItems[1] ELSE <<>>

\* record.total as a number
TheTotal == ParseFloat(OrZero(TheInvoice.total))

\* the locals of the last build; its calls are in doc
B == built[1]

HasText(ops, lit) == \E i \in 1..Len(ops) : ops[i].op = "text" /\ ops[i].s.pre = lit

IdxText(ops, lit) == CHOOSE i \in 1..Len(ops) : ops[i].op = "text" /\ ops[i].s.pre = lit

HasTable(ops, third) == \E i \in 1..Len(ops) : ops[i].op = "table" /\ ops[i].s.pre = third

IdxTable(ops, third) == CHOOSE i \in 1..Len(ops) : ops[i].op = "table" /\ ops[i].s.pre = third

\* the amount printed right after the label lit, on the same line
AmountAfter(ops, lit) == ops[IdxText(ops, lit) + 1]

\* the keyword rule, stated on the raw description
HasKeyword(item) ==
  LET d == IF item.description.t = "str" THEN ToLowerCase(item.description.s) ELSE <<>>
  IN  \/ Includes(d, <<"l","a","b","o","r">>)
      \/ Includes(d, <<"h","o","u","r">>)
      \/ Includes(d, <<"s","e","r","v","i","c","e">>)
      \/ Includes(d, <<"t","i","m","e">>)

NoKeyword(item) == ~HasKeyword(item)

\* quantity x rate of one item, from its raw fields
QtyTimesRate(item) == Mul(ParseFloat(OrZero(item.quantity)), ParseFloat(OrZero(item.rate)))

RECURSIVE SumQtyTimesRate(_)
SumQtyTimesRate(items) ==
  IF items = <<>> THEN Zero
  ELSE Add(SumQtyTimesRate(SubSeq(items, 1, Len(items) - 1)), QtyTimesRate(items[Len(items)]))

-----------------------------------------------------------------------------
-----------------------------------------------------------------------------
(* C2 as stated: the tax is total - subtotal whenever record.total is      *)
(* present, nonzero (of either sign) and different from the subtotal, and  *)
(* 0.10 x subtotal otherwise.                                              *)
C2_TaxNonzeroTotal ==
  built # <<>> =>
    B.taxAmount = IF ~TheTotal.nan /\ TheTotal.v # 0 /\ StrictNe(TheTotal, B.subtotal)
                  THEN Sub(TheTotal, B.subtotal)
                  ELSE TimesTenth(B.subtotal)

(* C2, amended: the tax is total - subtotal whenever record.total parses   *)
(* to a number strictly greater than 0 and different from the subtotal,    *)
(* and 0.10 x subtotal in every other case (absent, zero, negative or      *)
(* non-numeric total, or total equal to the subtotal).                     *)
C2_TaxPositiveTotal ==
  built # <<>> =>
    B.taxAmount = IF ~TheTotal.nan /\ TheTotal.v > 0 /\ StrictNe(TheTotal, B.subtotal)
                  THEN Sub(TheTotal, B.subtotal)
                  ELSE TimesTenth(B.subtotal)

\* a negative record total over a subtotal of 100: the tax is 10
C2_Witness ==
  /\ built # <<>>
  /\ TheTotal = Num(0 - 50 * Unit)
  /\ B.subtotal = Num(100 * Unit)
  /\ B.taxAmount = Num(10 * Unit)

-----------------------------------------------------------------------------
(* C3 as stated: the TOTAL line shows record.total whenever it is present  *)
(* and nonzero, whatever its sign, and subtotal + tax otherwise.           *)
C3_TotalNonzeroTotal ==
  built # <<>> =>
    /\ HasText(doc, "TOTAL:")
    /\ AmountAfter(doc, "TOTAL:").s =
         Money(IF ~TheTotal.nan /\ TheTotal.v # 0 THEN TheTotal
               ELSE Add(B.subtotal, B.taxAmount))

(* C3, amended: the TOTAL line shows record.total whenever it parses to a  *)
(* number strictly greater than 0, and subtotal + computed tax in every    *)
(* other case (absent, zero, negative or non-numeric total).               *)
C3_TotalPositiveTotal ==
  built # <<>> =>
    /\ HasText(doc, "TOTAL:")
    /\ AmountAfter(doc, "TOTAL:").s =
         Money(IF ~TheTotal.nan /\ TheTotal.v > 0 THEN TheTotal
               ELSE Add(B.subtotal, B.taxAmount))
    /\ AmountAfter(doc, "TOTAL:").y = doc[IdxText(doc, "TOTAL:")].y

\* a record total equal to the subtotal of 100: TOTAL shows 100.00, not 110.00
C3_Witness ==
  /\ built # <<>>
  /\ TheTotal = Num(100 * Unit)
  /\ B.subtotal = Num(100 * Unit)
  /\ B.taxAmount = Num(10 * Unit)
  /\ AmountAfter(doc, "TOTAL:").s = Money(Num(100 * Unit))

-----------------------------------------------------------------------------
(* C4: the Tax line is printed exactly when the computed tax is strictly   *)
(* greater than 0; without it the TOTAL line is 13 below the Subtotal line *)
(* (21 with it), and a positive record total is still what TOTAL shows.    *)
C4_TaxLine ==
  built # <<>> =>
    LET ops  == doc
        subY == ops[IdxText(ops, "Subtotal:")].y
        totY == ops[IdxText(ops, "TOTAL:")].y
    IN  /\ HasText(ops, "Tax:") <=> (~B.taxAmount.nan /\ B.taxAmount.v > 0)
        /\ HasText(ops, "Tax:") =>
             /\ ops[IdxText(ops, "Tax:")].y = subY + 8
             /\ AmountAfter(ops, "Tax:").s = Money(B.taxAmount)
             /\ totY = subY + 21
        /\ ~HasText(ops, "Tax:") => totY = subY + 13
        /\ (~TheTotal.nan /\ TheTotal.v > 0) =>
             AmountAfter(ops, "TOTAL:").s = Money(TheTotal)

\* record.total = 95 over a subtotal of 100: tax -5, no Tax line, TOTAL 95.00
C4_Witness ==
  /\ built # <<>>
  /\ TheTotal = Num(95 * Unit)
  /\ B.subtotal = Num(100 * Unit)
  /\ B.taxAmount = Num(0 - 5 * Unit)
  /\ ~HasText(doc, "Tax:")
  /\ AmountAfter(doc, "TOTAL:").s = Money(Num(95 * Unit))

-----------------------------------------------------------------------------
-----------------------------------------------------------------------------
(* C6: no not-a-number value reaches a printed amount or a computed        *)
(* subtotal, tax or total; an item whose quantity or rate is a malformed   *)
(* string has amount 0.                                                    *)
C6_MalformedIsZero ==
  built # <<>> =>
    /\ ~B.subtotal.nan /\ ~B.taxAmount.nan /\ ~B.total.nan
    /\ \A i \in 1..Len(doc) :
         /\ ~doc[i].s.nan
         /\ \A r \in 1..Len(doc[i].body) : \A c \in 1..4 : ~doc[i].body[r][c].nan

-----------------------------------------------------------------------------
(* C7: the grand subtotal is servicesSubtotal + materialsSubtotal, each    *)
(* bucket subtotal is the sum of quantity x rate over the bucket (0 when   *)
(* empty), so the grand subtotal is the sum of quantity x rate over all    *)
(* line items; a carried amount field is never used.                       *)
C7_Subtotal ==
  built # <<>> =>
    /\ B.subtotal = Add(B.servicesSubtotal, B.materialsSubtotal)
    /\ B.servicesSubtotal = SumQtyTimesRate(B.services)
    /\ B.materialsSubtotal = SumQtyTimesRate(B.materials)
    /\ B.subtotal = SumQtyTimesRate(TheItems)
    /\ \A i \in 1..Len(doc) :
         doc[i].op = "table" =>
           LET items == IF doc[i].s.pre = "Rate" THEN B.services ELSE B.materials
           IN  /\ Len(doc[i].body) = Len(items)
               /\ \A r \in 1..Len(items) :
                    doc[i].body[r][4] = Money(QtyTimesRate(items[r]))

\* both buckets filled, one item carrying an amount of 999: subtotal 104.50
C7_Witness ==
  /\ built # <<>>
  /\ TheItems = <<ItemPaint, ItemLabor>>
  /\ B.materialsSubtotal = Num(4500)
  /\ B.servicesSubtotal = Num(100 * Unit)
  /\ B.subtotal = Num(104500)

-----------------------------------------------------------------------------
(* C8: with lineItems absent or empty and no record total, no table, no    *)
(* section heading and no section subtotal is rendered, subtotal, tax and  *)
(* total are 0, there is no Tax line, and the header, the Subtotal and     *)
(* TOTAL lines (0.00) and the thank-you line are still printed.            *)
C8_EmptyInvoice ==
  (built # <<>> /\ TheItems = <<>> /\ TheInvoice.total = Undef) =>
    LET ops == doc
    IN  /\ \A i \in 1..Len(ops) : ops[i].op # "table"
        /\ ~HasText(ops, "SERVICES") /\ ~HasText(ops, "MATERIALS")
        /\ ~HasText(ops, "Services Subtotal:") /\ ~HasText(ops, "Materials Subtotal:")
        /\ B.subtotal = Zero /\ B.taxAmount = Zero /\ B.total = Zero
        /\ ~HasText(ops, "Tax:")
        /\ ops[1].op = "text" /\ ops[1].y = 25
        /\ HasText(ops, "INVOICE") /\ HasText(ops, "BILL TO:")
        /\ HasText(ops, "Subtotal:") /\ AmountAfter(ops, "Subtotal:").s = Money(Zero)
        /\ HasText(ops, "TOTAL:") /\ AmountAfter(ops, "TOTAL:").s = Money(Zero)
        /\ ops[Len(ops)].s.pre = "Thank you for your business!"
        /\ ops[Len(ops)].y = PageHeight - 20

\* lineItems = [] with no total and no business or client information
C8_Witness ==
  /\ built # <<>>
  /\ TheInvoice.lineItems = << <<>> >>
  /\ TheInvoice.total = Undef
  /\ invoiceData.user = <<>> /\ user = <<>>
  /\ doc[1].s.str = "Invoice"
  /\ B.total = Zero

-----------------------------------------------------------------------------
(* C9: the header cursor starts at 32 and advances by 5 for each present   *)
(* field among businessAddress, businessPhone, businessEmail, absent       *)
(* fields printing nothing; BILL TO: is printed at max(cursor + 10, 55),   *)
(* so at 55 or lower on the page, strictly below every header line.        *)
C9_HeaderCursor ==
  built # <<>> =>
    LET ops     == doc
        b       == BusinessInfoOf(invoiceData, user)
        fields  == <<b.businessAddress, b.businessPhone, b.businessEmail>>
        present == SelectSeq(fields, LAMBDA f : f # "")
        n       == Len(present)
        iInv    == IdxText(ops, "INVOICE")
        billY   == ops[IdxText(ops, "BILL TO:")].y
    IN  /\ B.headerY = 32 + 5 * n
        /\ iInv = n + 2
        /\ \A k \in 1..n : /\ ops[k + 1].s = Plain("", present[k])
                           /\ ops[k + 1].x = 20
                           /\ ops[k + 1].y = 32 + 5 * (k - 1)
        /\ billY = (IF B.headerY + 10 > 55 THEN B.headerY + 10 ELSE 55)
        /\ billY >= 55
        /\ \A k \in 1..(iInv - 1) : ops[k].y < billY

\* all three fields present: cursor 47, BILL TO: pushed to 57
C9_Witness ==
  /\ built # <<>>
  /\ B.headerY = 47
  /\ doc[IdxText(doc, "BILL TO:")].y = 57
  /\ doc[4].s.str = "office@acme.test"

-----------------------------------------------------------------------------
(* C10: the Services table comes before the Materials table; a table       *)
(* starts at the cursor current after its heading; after a table the       *)
(* cursor is the end position autoTable reports plus 10, the bucket's      *)
(* subtotal line is printed there, and what is laid out next (the other    *)
(* heading or the totals divider) comes later and at a y strictly greater  *)
(* than the subtotal line's.                                               *)
SectionLaidOut(ops, third, heading, label, startCursor, finalY) ==
  LET i == IdxTable(ops, third)
  IN  /\ i > 1 /\ i + 3 <= Len(ops)
      /\ ops[i - 1].op = "text" /\ ops[i - 1].s.pre = heading
      /\ ops[i - 1].y = startCursor
      /\ ops[i].y = startCursor + 2
      /\ ops[i + 1].op = "text" /\ ops[i + 1].s.pre = label
      /\ ops[i + 1].y = finalY + 10
      /\ ops[i + 2].op = "text" /\ ops[i + 2].y = finalY + 10
      /\ ops[i + 2].s.fmt = "toFixed2"
      /\ ops[i + 3].y = finalY + 22 \/ ops[i + 3].y = finalY + 37
      /\ ops[i + 3].y > ops[i + 1].y

C10_LayoutOrder ==
  built # <<>> =>
    LET ops  == doc
        hasS == B.services # <<>>
        hasM == B.materials # <<>>
        div  == CHOOSE i \in 1..Len(ops) : ops[i].op = "line"
    IN  /\ HasTable(ops, "Rate") <=> hasS
        /\ HasTable(ops, "Price") <=> hasM
        /\ hasS => SectionLaidOut(ops, "Rate", "SERVICES", "Services Subtotal:",
                                  B.tablesY, tableEnd.s)
        /\ hasM => SectionLaidOut(ops, "Price", "MATERIALS", "Materials Subtotal:",
                                  IF hasS THEN tableEnd.s + 22 ELSE B.tablesY, tableEnd.m)
        /\ (hasS /\ hasM) =>
             /\ IdxTable(ops, "Rate") < IdxTable(ops, "Price")
             /\ IdxTable(ops, "Rate") + 3 = IdxTable(ops, "Price") - 1
        /\ hasM => div = IdxTable(ops, "Price") + 3
        /\ (hasS /\ ~hasM) => div = IdxTable(ops, "Rate") + 3
        /\ ops[div].y = 15 + (IF hasM THEN tableEnd.m + 22
                              ELSE IF hasS THEN tableEnd.s + 22 ELSE B.tablesY)

\* both tables, the Materials table ending above its start (continued on a
\* new page): its subtotal line follows the reported end, not the start
C10_Witness ==
  /\ built # <<>>
  /\ HasTable(doc, "Rate") /\ HasTable(doc, "Price")
  /\ tableEnd.m < doc[IdxTable(doc, "Price")].y
  /\ doc[IdxText(doc, "Materials Subtotal:")].y = tableEnd.m + 10

-----------------------------------------------------------------------------
(* AIlySidebar.  A handler runs to its first await in one step; what it    *)
(* awaits (getUserMedia, the recorder's stop event, the voice request, the *)
(* chat request) is counted as pending and completes in a later step.  A   *)
(* control can be used only while the sidebar is open and the control is   *)
(* not disabled.                                                           *)

\* bound on the length of the transcript
MaxMessages == 5

\* texts typed or transcribed: empty, blank, a command
InputTexts == {"", " ", "cmd"}

\* String.prototype.trim
Trim(t) == IF t = " " THEN "" ELSE t

\* messages every piece of work in progress may still add, plus those shown
Budget ==
  Len(messages) + formChats + voiceChatting
    + 2 * (startPending + stopQueued + voiceTranscribing + (IF isRecording THEN 1 ELSE 0))

\* executeChat calls that have set isLoading and not reached their finally
ChatsInFlight == formChats + voiceChatting

\* disabled={isLoading || isTranscribing} of the text input and the mic button
ControlsDisabled == isLoading \/ isTranscribing

\* disabled={isLoading || !input.trim() || isTranscribing} of the submit button
SubmitDisabled == isLoading \/ Trim(input) = "" \/ isTranscribing

\* onClick={() => setIsOpen(true)}
OpenSidebar ==
  /\ ~isOpen
  /\ isOpen' = TRUE
  /\ UNCHANGED <<messages, input, isLoading, isRecording, isTranscribing, mediaRecorder,
                 audioChunks, startPending, stopQueued, voiceTranscribing, voiceChatting,
                 formChats>>
  /\ UNCHANGED pdfVars

\* onClick={() => setIsOpen(false)}
CloseSidebar ==
  /\ isOpen
  /\ isOpen' = FALSE
  /\ UNCHANGED <<messages, input, isLoading, isRecording, isTranscribing, mediaRecorder,
                 audioChunks, startPending, stopQueued, voiceTranscribing, voiceChatting,
                 formChats>>
  /\ UNCHANGED pdfVars

\* onChange={(e) => setInput(e.target.value)}
TypeInput ==
  /\ isOpen /\ ~ControlsDisabled
  /\ \E t \in InputTexts : input' = t
  /\ UNCHANGED <<isOpen, messages, isLoading, isRecording, isTranscribing, mediaRecorder,
                 audioChunks, startPending, stopQueued, voiceTranscribing, voiceChatting,
                 formChats>>
  /\ UNCHANGED pdfVars

\* executeChat(messageText) up to its first await, for a text that is not blank
ExecuteChatStart(messageText) ==
  /\ messages' = Append(messages, [role |-> "user", content |-> messageText])
  /\ input' = ""
  /\ isLoading' = TRUE

\* a reply, or the catch branch of executeChat
ChatReplies == {"reply", "Connection lost. Check server."}

\* executeChat from its await to the end of its finally block
ExecuteChatFinish(content) ==
  /\ messages' = Append(messages, [role |-> "assistant", content |-> content])
  /\ isLoading' = FALSE

\* onSubmit={(e) => { e.preventDefault(); executeChat(input); }}
SubmitForm ==
  /\ isOpen /\ ~SubmitDisabled
  /\ Budget + 2 <= MaxMessages
  /\ ExecuteChatStart(input)
  /\ formChats' = formChats + 1
  /\ UNCHANGED <<isOpen, isRecording, isTranscribing, mediaRecorder, audioChunks,
                 startPending, stopQueued, voiceTranscribing, voiceChatting>>
  /\ UNCHANGED pdfVars

\* the chat request of a form submit answers or fails
FormChatResponse ==
  /\ formChats > 0
  /\ \E content \in ChatReplies : ExecuteChatFinish(content)
  /\ formChats' = formChats - 1
  /\ UNCHANGED <<isOpen, input, isRecording, isTranscribing, mediaRecorder, audioChunks,
                 startPending, stopQueued, voiceTranscribing, voiceChatting>>
  /\ UNCHANGED pdfVars

\* mic button while not recording: startRecording up to await getUserMedia
StartRecordingClick ==
  /\ isOpen /\ ~ControlsDisabled /\ ~isRecording
  /\ Budget + 2 <= MaxMessages
  /\ startPending' = startPending + 1
  /\ UNCHANGED <<isOpen, messages, input, isLoading, isRecording, isTranscribing,
                 mediaRecorder, audioChunks, stopQueued, voiceTranscribing, voiceChatting,
                 formChats>>
  /\ UNCHANGED pdfVars

\* getUserMedia resolves: a new recorder is started
GetUserMediaGranted ==
  /\ startPending > 0
  /\ startPending' = startPending - 1
  /\ mediaRecorder' = "recording"
  /\ audioChunks' = 0
  /\ isRecording' = TRUE
  /\ UNCHANGED <<isOpen, messages, input, isLoading, isTranscribing, stopQueued,
                 voiceTranscribing, voiceChatting, formChats>>
  /\ UNCHANGED pdfVars

\* getUserMedia rejects: alert("Microphone access denied.")
GetUserMediaDenied ==
  /\ startPending > 0
  /\ startPending' = startPending - 1
  /\ UNCHANGED <<isOpen, messages, input, isLoading, isRecording, isTranscribing,
                 mediaRecorder, audioChunks, stopQueued, voiceTranscribing, voiceChatting,
                 formChats>>
  /\ UNCHANGED pdfVars

\* mic button while recording: stopRecording; recorder.stop() queues the
\* recorder's dataavailable and stop events
StopRecordingClick ==
  /\ isOpen /\ ~ControlsDisabled /\ isRecording
  /\ IF mediaRecorder # "null" /\ isRecording
     THEN /\ mediaRecorder' = "inactive"
          /\ stopQueued' = stopQueued + 1
          /\ isRecording' = FALSE
     ELSE UNCHANGED <<mediaRecorder, stopQueued, isRecording>>
  /\ UNCHANGED <<isOpen, messages, input, isLoading, isTranscribing, audioChunks,
                 startPending, voiceTranscribing, voiceChatting, formChats>>
  /\ UNCHANGED pdfVars

\* ondataavailable, then onstop up to the first await of
\* handleVoiceTranscription
RecorderOnStop ==
  /\ stopQueued > 0
  /\ stopQueued' = stopQueued - 1
  /\ \E size \in {0, 1} : audioChunks' = IF size > 0 THEN audioChunks + 1 ELSE audioChunks
  /\ isTranscribing' = TRUE
  /\ voiceTranscribing' = voiceTranscribing + 1
  /\ UNCHANGED <<isOpen, messages, input, isLoading, isRecording, mediaRecorder,
                 startPending, voiceChatting, formChats>>
  /\ UNCHANGED pdfVars

\* the voice request fails, or answers without user_text: catch / finally
TranscriptionEmpty ==
  /\ voiceTranscribing > 0
  /\ voiceTranscribing' = voiceTranscribing - 1
  /\ isTranscribing' = FALSE
  /\ UNCHANGED <<isOpen, messages, input, isLoading, isRecording, mediaRecorder,
                 audioChunks, startPending, stopQueued, voiceChatting, formChats>>
  /\ UNCHANGED pdfVars

\* the voice request answers with a blank user_text: setInput, executeChat
\* returns at once, finally
TranscriptionBlank ==
  /\ voiceTranscribing > 0
  /\ voiceTranscribing' = voiceTranscribing - 1
  /\ input' = " "
  /\ isTranscribing' = FALSE
  /\ UNCHANGED <<isOpen, messages, isLoading, isRecording, mediaRecorder,
                 audioChunks, startPending, stopQueued, voiceChatting, formChats>>
  /\ UNCHANGED pdfVars

\* the voice request answers with a user_text: setInput, then executeChat
\* up to its first await
TranscriptionText ==
  /\ voiceTranscribing > 0
  /\ voiceTranscribing' = voiceTranscribing - 1
  /\ \E t \in {x \in InputTexts : Trim(x) # ""} : ExecuteChatStart(t)
  /\ voiceChatting' = voiceChatting + 1
  /\ UNCHANGED <<isOpen, isRecording, isTranscribing, mediaRecorder, audioChunks,
                 startPending, stopQueued, formChats>>
  /\ UNCHANGED pdfVars

\* the chat request of a transcription answers or fails; executeChat ends
\* and handleVoiceTranscription runs its finally
VoiceChatResponse ==
  /\ voiceChatting > 0
  /\ \E content \in ChatReplies : ExecuteChatFinish(content)
  /\ voiceChatting' = voiceChatting - 1
  /\ isTranscribing' = FALSE
  /\ UNCHANGED <<isOpen, input, isRecording, mediaRecorder, audioChunks,
                 startPending, stopQueued, voiceTranscribing, formChats>>
  /\ UNCHANGED pdfVars

\* no invoice is generated while the sidebar is exercised
ChatInit ==
  /\ invoiceData = Flat(Invoice("", "", "", Undef, "", <<>>, Undef, <<>>), <<>>, <<>>)
  /\ user = <<>>
  /\ client = <<>>
  /\ tableEnd = TableEndSamePage
  /\ NoCalls
  /\ ChatIdle

ChatNext ==
  \/ OpenSidebar
  \/ CloseSidebar
  \/ TypeInput
  \/ SubmitForm
  \/ FormChatResponse
  \/ StartRecordingClick
  \/ GetUserMediaGranted
  \/ GetUserMediaDenied
  \/ StopRecordingClick
  \/ RecorderOnStop
  \/ TranscriptionEmpty
  \/ TranscriptionBlank
  \/ TranscriptionText
  \/ VoiceChatResponse

SpecChat == ChatInit /\ [][ChatNext]_vars

-----------------------------------------------------------------------------
(* C11: at most one chat request is outstanding at any time, and isLoading *)
(* is false only when none is: executeChat never starts while an earlier   *)
(* call has not reached its finally block.                                 *)
C11_OneChatOutstanding ==
  /\ ChatsInFlight <= 1
  /\ ~isLoading => ChatsInFlight = 0

====
